---- MODULE Spec2Model ----
(***************************************************************************)
(* TransferApp: the auth Worker (workers/auth/src/index.js) and its D1     *)
(* users table.  The Worker is the only executable component of the        *)
(* repository's sources: it serves OPTIONS, POST /signup, POST /login,     *)
(* POST /proxy/echo and GET /healthz.  Every request is a process whose    *)
(* steps are separated at the handler's await points on shared state (the  *)
(* D1 statement, the backend fetch), so concurrent requests interleave     *)
(* there.                                                                  *)
(*                                                                         *)
(* The sources hold a second copy of the fetch handler (after the guide in  *)
(* setup.md) that normalizes the path, accepts GET /proxy/echo and routes  *)
(* inside try/catch; `guarded` selects it, with the same handlers.  Of the  *)
(* response headers the model keeps Access-Control-Allow-Origin,            *)
(* Cache-Control and Content-Type.                                         *)
(*                                                                         *)
(* The sources hold no transfer engine, ledger, idempotency store or audit *)
(* log: the architecture notes list them as later milestones of the Rust   *)
(* backend, which serves /healthz and /echo only.  Nothing here models     *)
(* them.                                                                   *)
(*                                                                         *)
(* JavaScript strings are sequences of one-character strings; a JavaScript *)
(* value is a tagged record (string, number, undefined).                   *)
(***************************************************************************)
EXTENDS Integers, Sequences, FiniteSets, TLC

\* ---------------------------------------------------------------- bounds
\* Number of requests the Worker receives in one behaviour.
MaxReq == 2
\* Number of distinct salts crypto.randomUUID() can return.
MaxSalt == 2
\* Number of distinct clock readings of Date.now() (seconds).
MaxClock == 2

\* ------------------------------------------------------- JavaScript values
Str(s) == [t |-> "str", v |-> s]
Undef == [t |-> "undef", v |-> <<>>]
Num == [t |-> "num", v |-> <<>>]

\* JavaScript truthiness as `!x` tests it: a non-empty string or a non-zero
\* number; undefined and "" are falsy.
Truthy(x) == \/ x.t = "str" /\ x.v # <<>>
             \/ x.t = "num"

\* String.prototype.toLowerCase, per character.
LowerChar(c) == CASE c = "A" -> "a"
                  [] c = "B" -> "b"
                  [] OTHER -> c
toLowerCase(s) == [i \in 1..Len(s) |-> LowerChar(s[i])]

\* ------------------------------------------------------------ environment
SecretGood == <<"s", "1">>
SecretBad == <<"s", "2">>
PagesOrigin == <<"a", "p", "p">>
EvilOrigin == <<"e", "v", "i", "l">>
BackendHost == <<"a", "p", "i">>
SigningKey == <<"k">>

\* The Worker's env bindings.  FRONTEND_ORIGIN and BACKEND_URL are wrangler
\* vars that may be left unset (the empty string is falsy like undefined).
Envs == [FRONTEND_ORIGIN : {<<>>, PagesOrigin},
         BACKEND_URL : {<<>>, BackendHost, BackendHost \o <<"/">>},
         SIGNUP_GATE_SECRET : {SecretGood},
         JWT_SIGNING_KEY : {SigningKey}]

\* ---------------------------------------------------------------- inputs
Pw8 == <<"p", "a", "s", "s", "w", "o", "r", "d">>
Pw8b == <<"P", "a", "s", "s", "w", "o", "r", "d">>
Pw7 == <<"p", "a", "s", "s", "w", "o", "r">>

EmailValues == {Str(<<"a">>), Str(<<"A">>), Num}
SignupPasswords == {Str(Pw8), Str(Pw7)}
LoginPasswords == {Str(Pw8), Str(Pw8b)}
SecretValues == {Str(SecretGood), Str(SecretBad)}

NoPayload == [json |-> FALSE, email |-> Undef, password |-> Undef,
              signupSecret |-> Undef, message |-> Undef]

\* Request bodies: one that request.json() rejects, a JSON object with a
\* field missing, and JSON objects with every field.
SignupPayloads ==
    {NoPayload,
     [json |-> TRUE, email |-> Str(<<"a">>), password |-> Undef,
      signupSecret |-> Str(SecretBad), message |-> Undef]}
    \cup
    [json : {TRUE}, email : EmailValues, password : SignupPasswords,
     signupSecret : SecretValues, message : {Undef}]
LoginPayloads ==
    {NoPayload,
     [json |-> TRUE, email |-> Undef, password |-> Str(Pw8),
      signupSecret |-> Undef, message |-> Undef]}
    \cup
    [json : {TRUE}, email : EmailValues, password : LoginPasswords,
     signupSecret : {Undef}, message : {Undef}]
EchoPayloads == {NoPayload} \cup
    [json : {TRUE}, email : {Undef}, password : {Undef},
     signupSecret : {Undef}, message : {Undef, Str(<<"h", "i">>)}]

Bearer == <<"t", "o", "k">>

\* The Origin header a browser sends; <<>> is a request without one.
OriginHeaders == {<<>>, EvilOrigin}

NoRequest == [method |-> "", path |-> "", origin |-> <<>>, auth |-> <<>>,
              payload |-> NoPayload]

Requests ==
    [method : {"POST"}, path : {"/signup"}, origin : OriginHeaders,
     auth : {<<>>}, payload : SignupPayloads]
    \cup
    [method : {"POST"}, path : {"/login"}, origin : OriginHeaders,
     auth : {<<>>}, payload : LoginPayloads]
    \cup
    [method : {"POST"}, path : {"/proxy/echo"}, origin : OriginHeaders,
     auth : {<<>>, Bearer}, payload : EchoPayloads]
    \cup
    [method : {"OPTIONS"}, path : {"/signup"}, origin : OriginHeaders,
     auth : {<<>>}, payload : {NoPayload}]
    \cup
    [method : {"GET"}, path : {"/healthz", "/healthz/", "/proxy/echo", "/other"},
     origin : OriginHeaders, auth : {<<>>}, payload : {NoPayload}]

\* ------------------------------------------------------------- responses
NoToken == [sub |-> 0, email |-> <<>>, iat |-> 0, exp |-> 0, key |-> <<>>]

\* new Response(body, {status}) with no headers of its own.
PlainResponse(body, status) ==
    [kind |-> "response", status |-> status, body |-> body, token |-> NoToken,
     contentType |-> "", cacheControl |-> "", acao |-> <<>>]

jsonResponse(body, status) ==
    [PlainResponse(body, status) EXCEPT !.contentType = "application/json",
                                        !.cacheControl = "no-store"]

\* An exception that leaves fetch(): index.js has no try/catch around the
\* route handlers, so the runtime gets a rejected promise and no Response.
Thrown == [PlainResponse("exception", 0) EXCEPT !.kind = "exception"]

NoResponse == [PlainResponse("", 0) EXCEPT !.kind = "none"]

allowedOriginFor(request, e) ==
    IF e.FRONTEND_ORIGIN # <<>> THEN e.FRONTEND_ORIGIN
    ELSE IF request.origin # <<>> THEN request.origin
    ELSE <<"*">>

withCors(response, origin) == [response EXCEPT !.acao = origin]

\* ---------------------------------------------------------------- crypto
\* crypto.randomUUID().replaceAll('-', ''): one of MaxSalt distinct strings.
Salts == {[j \in 1..n |-> "u"] : n \in 1..MaxSalt}

\* SHA-256 over `${salt}:${password}`, base64: modelled as the tagged
\* preimage, i.e. a collision-free digest.
hashPassword(password, salt) == <<"sha256">> \o salt \o <<":">> \o password

\* body.signature with an HMAC over the payload under the secret: modelled as
\* the payload together with the key that signed it.
signCompactToken(payload, secret) ==
    [sub |-> payload.sub, email |-> payload.email, iat |-> payload.iat,
     exp |-> payload.exp, key |-> secret]

\* ------------------------------------------------------------------ state
VARIABLES
    guarded,    \* whether fetch routes inside try/catch on a normalized path
    env,        \* the Worker's bindings, fixed at deployment
    users,      \* rows of the D1 users table
    req,        \* per request: its position, the request, locals, response
    backend     \* the requests the Worker has sent to BACKEND_URL, in order

vars == <<guarded, env, users, req, backend>>

Reqs == 1..MaxReq

NoPending == [email |-> Undef, password |-> <<>>, hash |-> <<>>, salt |-> <<>>]

NewSlot == [pc |-> "new", request |-> NoRequest, pending |-> NoPending,
            resp |-> NoResponse]

\* The Worker of workers/auth/src/index.js, freshly deployed.
Init ==
    /\ guarded = FALSE
    /\ env \in Envs
    /\ users = {}
    /\ req = [i \in Reqs |-> NewSlot]
    /\ backend = <<>>

\* id INTEGER PRIMARY KEY AUTOINCREMENT: rows are never deleted, so the next
\* id is one past the number of rows.
NextId == Cardinality(users) + 1

\* SELECT ... WHERE email = ?1 (BINARY collation: an exact match).
RowsFor(email) == {u \in users : u.email = email}

\* The second fetch handler of the sources, with the same bindings: it
\* normalizes the path and routes inside try/catch.
InitGuarded ==
    /\ guarded = TRUE
    /\ env \in Envs
    /\ users = {}
    /\ req = [i \in Reqs |-> NewSlot]
    /\ backend = <<>>

\* normalizePath: pathname.replace(/\/+$/, ''), and '/' for the empty result,
\* on the paths of Requests.
normalizePath(pathname) ==
    CASE pathname = "/healthz/" -> "/healthz"
      [] OTHER -> pathname

\* The path fetch routes on.
PathOf(r) == IF guarded THEN normalizePath(r.path) ELSE r.path

\* A fetch without the try/catch: what the handler throws leaves fetch.
DeliverUncaught(r, response) == response

\* What fetch returns when the route handler ends with `response`: the
\* guarded fetch catches what the handler throws and answers 500.
Deliver(r, response) ==
    IF guarded /\ response.kind = "exception"
    THEN withCors(jsonResponse("Unexpected error", 500), allowedOriginFor(r, env))
    ELSE response

\* fetch() returns `response` for request i.
Respond(i, r, response) ==
    req' = [req EXCEPT ![i] = [pc |-> "done", request |-> r,
                               pending |-> req[i].pending,
                               resp |-> Deliver(r, response)]]

\* Requests are numbered in the order they arrive.
Arrives(i) ==
    /\ req[i].pc = "new"
    /\ \A j \in Reqs : j < i => req[j].pc # "new"

\* ----------------------------------------------------------------- fetch
\* OPTIONS (any path): the preflight answer.
Options(i) ==
    \E r \in Requests :
        /\ Arrives(i)
        /\ r.method = "OPTIONS"
        /\ Respond(i, r, withCors(PlainResponse("", 204), allowedOriginFor(r, env)))
        /\ UNCHANGED <<guarded, env, users, backend>>

\* GET /healthz.
Healthz(i) ==
    \E r \in Requests :
        /\ Arrives(i)
        /\ r.method = "GET" /\ PathOf(r) = "/healthz"
        /\ Respond(i, r, withCors(PlainResponse("ok", 200), allowedOriginFor(r, env)))
        /\ UNCHANGED <<guarded, env, users, backend>>

\* No route matches.
NotFound(i) ==
    \E r \in Requests :
        /\ Arrives(i)
        /\ r.method # "OPTIONS"
        /\ ~(r.method = "POST" /\ PathOf(r) \in {"/signup", "/login", "/proxy/echo"})
        /\ ~(r.method = "GET" /\ PathOf(r) = "/healthz")
        /\ ~(guarded /\ r.method = "GET" /\ PathOf(r) = "/proxy/echo")
        /\ Respond(i, r, withCors(jsonResponse("Not found", 404), allowedOriginFor(r, env)))
        /\ UNCHANGED <<guarded, env, users, backend>>

\* ---------------------------------------------------------- handleSignup
\* handleSignup's checks with the password length tested before the secret.
SignupRejectionLengthFirst(payload, e) ==
    IF ~payload.json THEN jsonResponse("Invalid JSON", 400)
    ELSE IF ~Truthy(payload.email) \/ ~Truthy(payload.password)
            \/ ~Truthy(payload.signupSecret)
    THEN jsonResponse("email, password, and signupSecret are required", 400)
    ELSE IF payload.password.t = "str" /\ Len(payload.password.v) < 8
    THEN jsonResponse("Password must be at least 8 characters", 400)
    ELSE IF payload.signupSecret # Str(e.SIGNUP_GATE_SECRET)
    THEN jsonResponse("Invalid signup secret", 401)
    ELSE NoResponse

\* handleSignup's checks without the comparison with SIGNUP_GATE_SECRET.
SignupRejectionUngated(payload, e) ==
    IF ~payload.json THEN jsonResponse("Invalid JSON", 400)
    ELSE IF ~Truthy(payload.email) \/ ~Truthy(payload.password)
            \/ ~Truthy(payload.signupSecret)
    THEN jsonResponse("email, password, and signupSecret are required", 400)
    ELSE IF payload.password.t = "str" /\ Len(payload.password.v) < 8
    THEN jsonResponse("Password must be at least 8 characters", 400)
    ELSE NoResponse

\* The checks of handleSignup up to the INSERT, in the code's order; the
\* answer they give, or "" when the request passes them all.
SignupRejection(payload, e) ==
    IF ~payload.json THEN jsonResponse("Invalid JSON", 400)
    ELSE IF ~Truthy(payload.email) \/ ~Truthy(payload.password)
            \/ ~Truthy(payload.signupSecret)
    THEN jsonResponse("email, password, and signupSecret are required", 400)
    ELSE IF payload.signupSecret # Str(e.SIGNUP_GATE_SECRET)
    THEN jsonResponse("Invalid signup secret", 401)
    ELSE IF payload.password.t = "str" /\ Len(payload.password.v) < 8
    THEN jsonResponse("Password must be at least 8 characters", 400)
    ELSE NoResponse

\* POST /signup, a request the checks reject.
SignupReject(i) ==
    \E r \in Requests :
        /\ Arrives(i)
        /\ r.method = "POST" /\ PathOf(r) = "/signup"
        /\ SignupRejection(r.payload, env) # NoResponse
        /\ Respond(i, r, withCors(SignupRejection(r.payload, env), allowedOriginFor(r, env)))
        /\ UNCHANGED <<guarded, env, users, backend>>

\* POST /signup, a request that passes the checks: it draws a salt, hashes
\* the password and waits for D1.
SignupHash(i) ==
    \E r \in Requests, salt \in Salts :
        /\ Arrives(i)
        /\ r.method = "POST" /\ PathOf(r) = "/signup"
        /\ SignupRejection(r.payload, env) = NoResponse
        /\ req' = [req EXCEPT ![i] =
                     [pc |-> "signup_insert", request |-> r,
                      pending |-> [email |-> r.payload.email,
                                   password |-> r.payload.password.v,
                                   hash |-> hashPassword(r.payload.password.v, salt),
                                   salt |-> salt],
                      resp |-> NoResponse]]
        /\ UNCHANGED <<guarded, env, users, backend>>

\* A row whose email is bound as the caller wrote it, not lowercased.
SignupRowRaw(i) ==
    [id |-> NextId, email |-> req[i].pending.email.v,
     password_hash |-> req[i].pending.hash,
     password_salt |-> req[i].pending.salt]

\* The row the INSERT of request i binds.
SignupRow(i) ==
    [id |-> NextId, email |-> toLowerCase(req[i].pending.email.v),
     password_hash |-> req[i].pending.hash,
     password_salt |-> req[i].pending.salt]

\* The try block: bind(email.toLowerCase(), ...).run().  A non-string email
\* throws a TypeError inside the try, D1 rejects a second row for an email
\* (UNIQUE), and D1 may fail for another reason; the catch answers 409 for a
\* UNIQUE error and 500 for the rest.
SignupInsert(i) ==
    /\ req[i].pc = "signup_insert"
    /\ LET r == req[i].request
           origin == allowedOriginFor(r, env)
       IN \/ /\ req[i].pending.email.t # "str"
             /\ Respond(i, r, withCors(jsonResponse("Unexpected error", 500), origin))
             /\ UNCHANGED users
          \/ /\ req[i].pending.email.t = "str"
             /\ RowsFor(SignupRow(i).email) # {}
             /\ Respond(i, r, withCors(jsonResponse("Email already registered", 409), origin))
             /\ UNCHANGED users
          \/ /\ req[i].pending.email.t = "str"
             /\ RowsFor(SignupRow(i).email) = {}
             /\ users' = users \cup {SignupRow(i)}
             /\ Respond(i, r, withCors(jsonResponse("Account created", 201), origin))
          \/ /\ req[i].pending.email.t = "str"
             /\ Respond(i, r, withCors(jsonResponse("Unexpected error", 500), origin))
             /\ UNCHANGED users
    /\ UNCHANGED <<guarded, env, backend>>

\* ----------------------------------------------------------- handleLogin
\* The checks of handleLogin before the SELECT; NoResponse when it passes.
LoginRejection(payload) ==
    IF ~payload.json THEN jsonResponse("Invalid JSON", 400)
    ELSE IF ~Truthy(payload.email) \/ ~Truthy(payload.password)
    THEN jsonResponse("email and password are required", 400)
    ELSE NoResponse

\* POST /login, a request the checks reject.
LoginReject(i) ==
    \E r \in Requests :
        /\ Arrives(i)
        /\ r.method = "POST" /\ PathOf(r) = "/login"
        /\ LoginRejection(r.payload) # NoResponse
        /\ Respond(i, r, withCors(LoginRejection(r.payload), allowedOriginFor(r, env)))
        /\ UNCHANGED <<guarded, env, users, backend>>

\* POST /login with a truthy email that is not a string: email.toLowerCase()
\* throws outside any try, and the exception leaves fetch().
LoginThrow(i) ==
    \E r \in Requests :
        /\ Arrives(i)
        /\ r.method = "POST" /\ PathOf(r) = "/login"
        /\ LoginRejection(r.payload) = NoResponse
        /\ r.payload.email.t # "str"
        /\ Respond(i, r, Thrown)
        /\ UNCHANGED <<guarded, env, users, backend>>

\* POST /login that passes the checks: it waits for the SELECT.
LoginQuery(i) ==
    \E r \in Requests :
        /\ Arrives(i)
        /\ r.method = "POST" /\ PathOf(r) = "/login"
        /\ LoginRejection(r.payload) = NoResponse
        /\ r.payload.email.t = "str"
        /\ req' = [req EXCEPT ![i] =
                     [pc |-> "login_select", request |-> r,
                      pending |-> [email |-> r.payload.email,
                                   password |-> r.payload.password.v,
                                   hash |-> <<>>, salt |-> <<>>],
                      resp |-> NoResponse]]
        /\ UNCHANGED <<guarded, env, users, backend>>

\* A token whose email claim is the email as the caller wrote it.
LoginTokenRaw(row, email, now, e) ==
    signCompactToken([sub |-> row.id, email |-> email,
                      iat |-> now, exp |-> now + 3600],
                     e.JWT_SIGNING_KEY)

\* The token handleLogin issues for `row` at clock reading `now`.
LoginToken(row, email, now, e) ==
    signCompactToken([sub |-> row.id, email |-> toLowerCase(email),
                      iat |-> now, exp |-> now + 3600],
                     e.JWT_SIGNING_KEY)

\* A comparison that accepts any password once a row is found.
PasswordMatchesAny(password, row) == TRUE

\* computed === row.password_hash, with computed the hash of the submitted
\* password under the row's salt.
PasswordMatches(password, row) ==
    hashPassword(password, row.password_salt) = row.password_hash

\* The SELECT returns and the rest of handleLogin runs: no row or a hash
\* that differs answers 401, a match answers 200 with a token.  A D1 error
\* is not caught and leaves fetch().
LoginSelect(i) ==
    /\ req[i].pc = "login_select"
    /\ LET r == req[i].request
           origin == allowedOriginFor(r, env)
           email == req[i].pending.email.v
           rows == RowsFor(toLowerCase(email))
       IN \/ /\ rows = {}
             /\ Respond(i, r, withCors(jsonResponse("Invalid credentials", 401), origin))
          \/ \E row \in rows :
                /\ ~PasswordMatches(req[i].pending.password, row)
                /\ Respond(i, r, withCors(jsonResponse("Invalid credentials", 401), origin))
          \/ \E row \in rows, now \in 1..MaxClock :
                /\ PasswordMatches(req[i].pending.password, row)
                /\ Respond(i, r, withCors(
                       [jsonResponse("token", 200) EXCEPT
                           !.token = LoginToken(row, email, now, env)],
                       origin))
          \/ Respond(i, r, Thrown)
    /\ UNCHANGED <<guarded, env, users, backend>>

\* ------------------------------------------------------- handleEchoProxy
\* A target built without dropping the trailing slash of BACKEND_URL.
StripSlashNot(s) == s

\* String.prototype.replace(/\/$/, ''): drops one trailing slash.
StripSlash(s) ==
    IF Len(s) > 0 /\ s[Len(s)] = "/" THEN SubSeq(s, 1, Len(s) - 1) ELSE s

EchoTarget(e) == StripSlash(e.BACKEND_URL) \o <<"/", "e", "c", "h", "o">>

\* JSON.stringify({ message: payload?.message ?? 'ping' }).
EchoBody(payload) ==
    IF payload.json /\ payload.message.t # "undef"
    THEN payload.message.v ELSE <<"p", "i", "n", "g">>

\* The route of handleEchoProxy: POST /proxy/echo, and in the guarded fetch
\* GET /proxy/echo as well.
EchoRoute(r) ==
    /\ PathOf(r) = "/proxy/echo"
    /\ r.method = "POST" \/ (guarded /\ r.method = "GET")

\* The backend has not answered a request yet.
NoReply == [status |-> 0, text |-> ""]

\* POST /proxy/echo with BACKEND_URL unset.
EchoNotConfigured(i) ==
    \E r \in Requests :
        /\ Arrives(i)
        /\ EchoRoute(r)
        /\ env.BACKEND_URL = <<>>
        /\ Respond(i, r, withCors(jsonResponse("BACKEND_URL not configured", 500),
                                  allowedOriginFor(r, env)))
        /\ UNCHANGED <<guarded, env, users, backend>>

\* POST /proxy/echo: the Worker sends one POST to BACKEND_URL/echo with the
\* message and the caller's Authorization header, and waits for the answer.
EchoForward(i) ==
    \E r \in Requests :
        /\ Arrives(i)
        /\ EchoRoute(r)
        /\ env.BACKEND_URL # <<>>
        /\ backend' = Append(backend,
                [from |-> i, method |-> r.method, target |-> EchoTarget(env),
                 auth |-> r.auth,
                 body |-> IF r.method = "POST" THEN EchoBody(r.payload) ELSE <<>>,
                 reply |-> NoReply])
        /\ req' = [req EXCEPT ![i] =
                     [pc |-> "echo_fetch", request |-> r,
                      pending |-> NoPending, resp |-> NoResponse]]
        /\ UNCHANGED <<guarded, env, users>>

BackendStatuses == {200, 401}

\* What the backend answers: a status and the text of its body.
BackendReplies ==
    {[status |-> 200, text |-> "echo"], [status |-> 401, text |-> "unauthorized"]}

\* new Response(text, { status: res.status, headers: { 'Content-Type': ... } }).
EchoResponse(reply) ==
    [PlainResponse(reply.text, reply.status) EXCEPT
        !.contentType = "application/json"]

\* The backend answers and handleEchoProxy returns its status and text in a
\* Response that carries the backend's Content-Type only; or the fetch fails
\* and the exception leaves fetch().
EchoReply(i) ==
    /\ req[i].pc = "echo_fetch"
    /\ LET r == req[i].request
       IN \/ \E reply \in BackendReplies :
                /\ backend' = [k \in 1..Len(backend) |->
                                 IF backend[k].from = i
                                 THEN [backend[k] EXCEPT !.reply = reply]
                                 ELSE backend[k]]
                /\ Respond(i, r, withCors(EchoResponse(reply),
                                          allowedOriginFor(r, env)))
          \/ /\ Respond(i, r, Thrown)
             /\ UNCHANGED backend
    /\ UNCHANGED <<guarded, env, users>>

\* ------------------------------------------------------------------ spec
Next ==
    \E i \in Reqs :
        \/ Options(i)
        \/ Healthz(i)
        \/ NotFound(i)
        \/ SignupReject(i)
        \/ SignupHash(i)
        \/ SignupInsert(i)
        \/ LoginReject(i)
        \/ LoginThrow(i)
        \/ LoginQuery(i)
        \/ LoginSelect(i)
        \/ EchoNotConfigured(i)
        \/ EchoForward(i)
        \/ EchoReply(i)

Spec == Init /\ [][Next]_vars

\* The guarded fetch handler.
SpecGuarded == InitGuarded /\ [][Next]_vars

\* ------------------------------------------------------------ type check
TypeOK ==
    /\ guarded \in BOOLEAN
    /\ env \in Envs
    /\ \A u \in users : u.id \in 1..MaxReq /\ u.password_salt \in Salts
    /\ \A i \in Reqs :
          /\ req[i].pc \in {"new", "signup_insert", "login_select",
                            "echo_fetch", "done"}
          /\ req[i].pc # "new" => req[i].request \in Requests
          /\ req[i].resp.kind \in {"none", "response", "exception"}
    /\ Len(backend) <= MaxReq

\* ------------------------------------------------------------ properties
IsSignup(i) == req[i].request.method = "POST" /\ req[i].request.path = "/signup"
IsLogin(i) == req[i].request.method = "POST" /\ req[i].request.path = "/login"
IsEcho(i) == req[i].request.method = "POST" /\ req[i].request.path = "/proxy/echo"
Done(i) == req[i].pc = "done"

\* C13: signup is gated by the signup secret.  Every row of the users table
\* was inserted by a POST /signup that carried env.SIGNUP_GATE_SECRET and was
\* answered 201; a POST /signup with another secret (or none) is answered
\* 400 or 401 at once and is never the origin of a row.
SignupGated ==
    /\ \A u \in users :
          \E i \in Reqs :
             /\ Done(i) /\ IsSignup(i)
             /\ req[i].request.payload.signupSecret = Str(env.SIGNUP_GATE_SECRET)
             /\ req[i].request.payload.email.t = "str"
             /\ u.email = toLowerCase(req[i].request.payload.email.v)
             /\ u.password_hash = req[i].pending.hash
             /\ req[i].resp.status = 201
    /\ \A i \in Reqs :
          (/\ req[i].pc # "new" /\ IsSignup(i)
           /\ req[i].request.payload.signupSecret # Str(env.SIGNUP_GATE_SECRET))
          => /\ Done(i)
             /\ req[i].resp.kind = "response"
             /\ req[i].resp.status \in {400, 401}

\* A row exists, and a signup with the wrong secret and an otherwise valid
\* payload has been answered 401.
SignupGatedWitness ==
    /\ users # {}
    /\ \E i \in Reqs :
          /\ Done(i) /\ IsSignup(i)
          /\ req[i].request.payload.signupSecret = Str(SecretBad)
          /\ req[i].request.payload.password = Str(Pw8)
          /\ req[i].resp.status = 401

\* C14: CORS is strict to the Pages origin.  The Access-Control-Allow-Origin
\* header of every response is the configured FRONTEND_ORIGIN, never '*' and
\* never the Origin header of the request.
CorsStrictToPagesOrigin ==
    \A i \in Reqs :
        (Done(i) /\ req[i].resp.kind = "response")
        => /\ req[i].resp.acao = PagesOrigin
           /\ req[i].resp.acao # <<"*">>
           /\ req[i].resp.acao # EvilOrigin

\* A users row for the lowercased email of login request i whose stored hash
\* is the hash of the submitted password under the row's salt.
ValidCredentials(i) ==
    /\ req[i].request.payload.json
    /\ req[i].request.payload.email.t = "str"
    /\ req[i].request.payload.password.t = "str"
    /\ \E u \in users :
          /\ u.email = toLowerCase(req[i].request.payload.email.v)
          /\ hashPassword(req[i].request.payload.password.v, u.password_salt)
                = u.password_hash

\* C15 as stated: POST /login answers 200 with a token only for valid
\* credentials, and in every other case answers 400 or 401 with no token.
LoginAnswers200Or400Or401 ==
    \A i \in Reqs :
        (Done(i) /\ IsLogin(i))
        => \/ /\ req[i].resp.kind = "response"
              /\ req[i].resp.status = 200
              /\ req[i].resp.token # NoToken
              /\ ValidCredentials(i)
           \/ /\ req[i].resp.kind = "response"
              /\ req[i].resp.status \in {400, 401}
              /\ req[i].resp.token = NoToken

\* C15, amended: a token is issued only with status 200 and only for valid
\* credentials; every other response handleLogin returns is a 400 or a 401
\* with no token; when handleLogin throws (a non-string email, a D1 error)
\* no token is issued.
LoginValidatesCredentials ==
    \A i \in Reqs :
        (Done(i) /\ IsLogin(i))
        => \/ /\ req[i].resp.kind = "response"
              /\ req[i].resp.status = 200
              /\ req[i].resp.token # NoToken
              /\ ValidCredentials(i)
           \/ /\ req[i].resp.kind = "response"
              /\ req[i].resp.status \in {400, 401}
              /\ req[i].resp.token = NoToken
           \/ /\ req[i].resp.kind = "exception"
              /\ req[i].resp.token = NoToken

\* A login with a wrong password for a registered email has been answered
\* 401: the hash comparison decided the answer.
LoginValidatesWitness ==
    \E i \in Reqs :
        /\ Done(i) /\ IsLogin(i)
        /\ req[i].resp.status = 401
        /\ req[i].request.payload.email.t = "str"
        /\ \E u \in users : u.email = toLowerCase(req[i].request.payload.email.v)
        /\ ~ValidCredentials(i)

\* The backend requests sent on behalf of request i.
BackendCallsOf(i) == {k \in 1..Len(backend) : backend[k].from = i}

\* The message of an echo payload as the caller sent it: <<>> when the body
\* is not JSON or has no message.
SentMessage(payload) ==
    IF payload.json /\ payload.message.t = "str" THEN payload.message.v ELSE <<>>

ResponsesCacheFree ==
    \A i \in Reqs :
        (Done(i) /\ req[i].resp.kind = "response")
        => req[i].resp.cacheControl = "no-store"

\* A POST /signup that passes every check of handleSignup and has a string
\* email: one that reaches the INSERT with a row to insert.
ValidSignup(i) ==
    /\ req[i].pc # "new" /\ IsSignup(i)
    /\ req[i].request.payload.json
    /\ req[i].request.payload.email.t = "str"
    /\ req[i].request.payload.email.v # <<>>
    /\ req[i].request.payload.signupSecret = Str(env.SIGNUP_GATE_SECRET)
    /\ req[i].request.payload.password.t = "str"
    /\ Len(req[i].request.payload.password.v) >= 8

SameEmail(i, j) ==
    toLowerCase(req[i].request.payload.email.v)
        = toLowerCase(req[j].request.payload.email.v)

\* C18 as stated: at most one row per lowercased email, and of valid signups
\* for one lowercased email exactly one is answered 201 and every other 409.
SignupsOne201Others409 ==
    /\ \A u, v \in users :
          toLowerCase(u.email) = toLowerCase(v.email) => u = v
    /\ \A i, j \in Reqs :
          (/\ i # j /\ ValidSignup(i) /\ ValidSignup(j) /\ SameEmail(i, j)
           /\ Done(i) /\ Done(j))
          => \/ req[i].resp.status = 201 /\ req[j].resp.status = 409
             \/ req[i].resp.status = 409 /\ req[j].resp.status = 201

\* C18, amended: at most one row per lowercased email; of valid signups for
\* one lowercased email at most one is answered 201, a 409 is answered only
\* when another of them was answered 201, and every other answer is the 500
\* of a D1 failure.
EmailsUniqueCaseInsensitive ==
    /\ \A u, v \in users :
          toLowerCase(u.email) = toLowerCase(v.email) => u = v
    /\ \A u \in users : u.email = toLowerCase(u.email)
    /\ \A i \in Reqs :
          (ValidSignup(i) /\ Done(i))
          => /\ req[i].resp.kind = "response"
             /\ req[i].resp.status \in {201, 409, 500}
             /\ req[i].resp.status = 201 =>
                   \E u \in users :
                      u.email = toLowerCase(req[i].request.payload.email.v)
             /\ req[i].resp.status = 409 =>
                   \E j \in Reqs :
                      /\ j # i /\ ValidSignup(j) /\ Done(j) /\ SameEmail(i, j)
                      /\ req[j].resp.status = 201
    /\ \A i, j \in Reqs :
          (/\ i # j /\ ValidSignup(i) /\ ValidSignup(j) /\ SameEmail(i, j)
           /\ Done(i) /\ Done(j))
          => ~(req[i].resp.status = 201 /\ req[j].resp.status = 201)

\* Two valid signups whose emails differ only in letter case: one answered
\* 201, the other 409, one row in the table.
EmailsUniqueWitness ==
    /\ Cardinality(users) = 1
    /\ \E i, j \in Reqs :
          /\ ValidSignup(i) /\ ValidSignup(j) /\ Done(i) /\ Done(j)
          /\ req[i].request.payload.email # req[j].request.payload.email
          /\ SameEmail(i, j)
          /\ req[i].resp.status = 201 /\ req[j].resp.status = 409

\* Signup j was answered 201 and login i, whose SELECT is pending, names the
\* same email up to letter case.
SignedUpBefore(j, i) ==
    /\ ValidSignup(j) /\ Done(j) /\ req[j].resp.status = 201
    /\ req[i].pc = "login_select"
    /\ toLowerCase(req[j].request.payload.email.v)
          = toLowerCase(req[i].request.payload.email.v)

\* The answer to login i in the next state is a 200 with a token for the
\* lowercased email of signup j that expires an hour after it was issued.
TokenAnswer(i, j) ==
    /\ req'[i].resp.kind = "response"
    /\ req'[i].resp.status = 200
    /\ req'[i].resp.token.email = toLowerCase(req[j].request.payload.email.v)
    /\ req'[i].resp.token.exp = req'[i].resp.token.iat + 3600
    /\ req'[i].resp.token.iat \in 1..MaxClock

RejectAnswer(i) ==
    /\ req'[i].resp.kind = "response"
    /\ req'[i].resp.status = 401
    /\ req'[i].resp.token = NoToken

\* C19 as stated: once signup (e, p) was answered 201, a login with a
\* letter-case variant of e and password p is answered 200 with a token for
\* e lowercased and exp = iat + 3600, and one with another password 401.
SignupLoginRoundTripAlways ==
    [][\A i, j \in Reqs :
          (SignedUpBefore(j, i) /\ req'[i].pc = "done")
          => IF req[i].request.payload.password = req[j].request.payload.password
             THEN TokenAnswer(i, j)
             ELSE RejectAnswer(i)]_vars

\* C19, amended: the same, for a login whose SELECT returns; when the SELECT
\* fails with a D1 error handleLogin throws and issues no token.
SignupLoginRoundTrip ==
    [][\A i, j \in Reqs :
          (SignedUpBefore(j, i) /\ req'[i].pc = "done")
          => \/ IF req[i].request.payload.password = req[j].request.payload.password
                THEN TokenAnswer(i, j)
                ELSE RejectAnswer(i)
             \/ /\ req'[i].resp.kind = "exception"
                /\ req'[i].resp.token = NoToken]_vars

\* A signup with email "a" was answered 201 and a later login with email "A"
\* and the same password was answered 200 with a token for "a".
SignupLoginWitness ==
    \E i, j \in Reqs :
        /\ ValidSignup(j) /\ Done(j) /\ req[j].resp.status = 201
        /\ req[j].request.payload.email = Str(<<"a">>)
        /\ IsLogin(i) /\ Done(i) /\ req[i].resp.status = 200
        /\ req[i].request.payload.email = Str(<<"A">>)
        /\ req[i].request.payload.password = req[j].request.payload.password
        /\ req[i].resp.token.email = <<"a">>

\* The origin withCors is given for request i, written out from the bindings
\* and the request.
ExpectedOrigin(i) ==
    IF env.FRONTEND_ORIGIN = PagesOrigin THEN PagesOrigin
    ELSE IF req[i].request.origin = EvilOrigin THEN EvilOrigin
    ELSE <<"*">>

UnexpectedError(i) ==
    /\ req[i].resp.kind = "response"
    /\ req[i].resp.status = 500
    /\ req[i].resp.body = "Unexpected error"
    /\ req[i].resp.contentType = "application/json"
    /\ req[i].resp.acao = ExpectedOrigin(i)

\* C20: the guarded fetch answers every request.  Whatever a route handler
\* throws (a non-string email in login, a failed backend fetch, a D1 error),
\* fetch returns a response, never an exception: 500 {error: 'Unexpected
\* error'} with the CORS headers where the handler threw.
FetchAnswersEveryRequest ==
    \A i \in Reqs :
        Done(i) =>
           /\ req[i].resp.kind = "response"
           /\ req[i].resp.acao = ExpectedOrigin(i)
           /\ (/\ IsLogin(i) /\ req[i].request.payload.json
               /\ req[i].request.payload.email.t = "num"
               /\ req[i].request.payload.password.t = "str")
              => UnexpectedError(i)
           /\ (\E k \in BackendCallsOf(i) : backend[k].reply = NoReply)
              => UnexpectedError(i)
           /\ (IsLogin(i) /\ req[i].resp.status \notin {200, 400, 401})
              => UnexpectedError(i)

\* A login with a number for an email and an echo whose backend fetch failed
\* have both been answered 500.
FetchAnswersWitness ==
    \E i, j \in Reqs :
        /\ Done(i) /\ IsLogin(i) /\ req[i].request.payload.email.t = "num"
        /\ req[i].resp.status = 500
        /\ Done(j) /\ BackendCallsOf(j) # {}
        /\ \A k \in BackendCallsOf(j) : backend[k].reply = NoReply
        /\ req[j].resp.status = 500

\* Request i is a POST /signup that fetch answers in this step.
SignupAnswered(i) ==
    /\ req[i].pc # "done" /\ req'[i].pc = "done"
    /\ req'[i].request.method = "POST" /\ req'[i].request.path = "/signup"

\* The answer the order of handleSignup's checks gives a payload, written
\* out case by case: 0 when no check rejects it.
ExpectedRejection(payload) ==
    IF ~payload.json THEN 400
    ELSE IF payload.email.t = "undef" \/ payload.password.t = "undef"
            \/ payload.signupSecret.t = "undef" THEN 400
    ELSE IF payload.signupSecret.v # SecretGood THEN 401
    ELSE IF Len(payload.password.v) < 8 THEN 400
    ELSE 0

\* C21: a POST /signup changes the users table only when it answers 201, and
\* then by inserting exactly one row; every other answer (400, 401, 409,
\* 500) leaves the table unchanged, and no other step changes it.  The
\* checks run in the order missing fields, signup secret, password length:
\* a wrong secret with a short password answers 401.
SignupFrame ==
    [][/\ \A i \in Reqs :
             SignupAnswered(i) =>
                /\ req'[i].resp.kind = "response"
                /\ req'[i].resp.status \in {201, 400, 401, 409, 500}
                /\ IF req'[i].resp.status = 201
                   THEN /\ Cardinality(users') = Cardinality(users) + 1
                        /\ users \subseteq users'
                   ELSE users' = users
                /\ ExpectedRejection(req'[i].request.payload) # 0
                   => req'[i].resp.status
                         = ExpectedRejection(req'[i].request.payload)
                /\ ExpectedRejection(req'[i].request.payload) = 0
                   => req'[i].resp.status \in {201, 409, 500}
       /\ users' # users =>
             \E i \in Reqs : SignupAnswered(i) /\ req'[i].resp.status = 201
      ]_vars

\* One signup was answered 201 and its row is the only one; another, with a
\* wrong secret and a 7-character password, was answered 401.
SignupFrameWitness ==
    /\ Cardinality(users) = 1
    /\ \E i, j \in Reqs :
          /\ Done(i) /\ IsSignup(i) /\ req[i].resp.status = 201
          /\ Done(j) /\ IsSignup(j)
          /\ req[j].request.payload.signupSecret = Str(SecretBad)
          /\ req[j].request.payload.password = Str(Pw7)
          /\ req[j].resp.status = 401

====
